---- MODULE Spec2Model ----
(***************************************************************************)
(* A model of src/core/tsv7_ult_quotes_to_origl_quotes.js: the resolution  *)
(* of gloss (ULT) quotes of a translation-notes table into the aligned     *)
(* original-language words.                                                *)
(*                                                                         *)
(* A JavaScript string is a sequence of characters.  A character is a      *)
(* one-letter TLA+ string for ASCII and a name for the others:             *)
(*   "ELLIPSIS" U+2026, "MAQAF" U+05BE, "PASEQ" U+05C0, "ALEF" U+05D0,     *)
(*   "ALPHA" U+03B1, "EPSILONPSILI" U+1F10, "NBSP" U+00A0, "TAB" U+0009,   *)
(*   "LDQUO" U+201C, "RDQUO" U+201D, "LSQUO" U+2018, "RSQUO" U+2019,       *)
(*   "LF" U+000A, "VT" U+000B, "FF" U+000C, "CR" U+000D, "OGHAMSP" U+1680, *)
(*   "ENQUAD" U+2000, "EMQUAD" U+2001, "ENSP" U+2002, "EMSP" U+2003,       *)
(*   "EMSP3" U+2004, "EMSP4" U+2005, "EMSP6" U+2006, "FIGSP" U+2007,       *)
(*   "PUNCSP" U+2008, "THINSP" U+2009, "HAIRSP" U+200A, "LSEP" U+2028,     *)
(*   "PSEP" U+2029, "NNBSP" U+202F, "MMSP" U+205F, "IDSP" U+3000,          *)
(*   "BOM" U+FEFF.                                                         *)
(***************************************************************************)
EXTENDS Integers, Sequences, FiniteSets, TLC

(***************************************************************************)
(* Strings                                                                 *)
(***************************************************************************)
LowerCaseLetters ==
  <<"a","b","c","d","e","f","g","h","i","j","k","l","m",
    "n","o","p","q","r","s","t","u","v","w","x","y","z">>

UpperCaseLetters ==
  <<"A","B","C","D","E","F","G","H","I","J","K","L","M",
    "N","O","P","Q","R","S","T","U","V","W","X","Y","Z">>

Digits == <<"0","1","2","3","4","5","6","7","8","9">>

\* The index of character c in the sequence of characters cs, 0 when absent.
PosIn(c, cs) ==
  IF \E i \in 1..Len(cs) : cs[i] = c
    THEN CHOOSE i \in 1..Len(cs) : cs[i] = c
    ELSE 0

IsLower(c) == PosIn(c, LowerCaseLetters) > 0

IsUpper(c) == PosIn(c, UpperCaseLetters) > 0

\* String.prototype.toUpperCase / toLowerCase, one character.
ToUpperChar(c) == IF IsLower(c) THEN UpperCaseLetters[PosIn(c, LowerCaseLetters)] ELSE c

ToLowerChar(c) == IF IsUpper(c) THEN LowerCaseLetters[PosIn(c, UpperCaseLetters)] ELSE c

toUpperCase(s) == [i \in 1..Len(s) |-> ToUpperChar(s[i])]

toLowerCase(s) == [i \in 1..Len(s) |-> ToLowerChar(s[i])]

\* The characters the regular expression class \s matches, which are also
\* those trim removes and parseInt skips: the white space and the line
\* terminators of ECMAScript.
WhiteSpace ==
  {" ", "TAB", "LF", "VT", "FF", "CR", "NBSP", "OGHAMSP",
   "ENQUAD", "EMQUAD", "ENSP", "EMSP", "EMSP3", "EMSP4", "EMSP6", "FIGSP",
   "PUNCSP", "THINSP", "HAIRSP", "LSEP", "PSEP", "NNBSP", "MMSP", "IDSP", "BOM"}

\* The code point of a character outside ASCII letters and digits; the
\* ASCII characters of the model are all below U+0080.
CodePoint(c) ==
  CASE c = "ELLIPSIS" -> 8230
    [] c = "MAQAF" -> 1470
    [] c = "PASEQ" -> 1472
    [] c = "ALEF" -> 1488
    [] c = "ALPHA" -> 945
    [] c = "EPSILONPSILI" -> 7952
    [] c = "NBSP" -> 160
    [] c = "LDQUO" -> 8220
    [] c = "RDQUO" -> 8221
    [] c = "LSQUO" -> 8216
    [] c = "RSQUO" -> 8217
    [] c = "TAB" -> 9
    [] c = "LF" -> 10
    [] c = "VT" -> 11
    [] c = "FF" -> 12
    [] c = "CR" -> 13
    [] c = "OGHAMSP" -> 5760
    [] c = "ENQUAD" -> 8192
    [] c = "EMQUAD" -> 8193
    [] c = "ENSP" -> 8194
    [] c = "EMSP" -> 8195
    [] c = "EMSP3" -> 8196
    [] c = "EMSP4" -> 8197
    [] c = "EMSP6" -> 8198
    [] c = "FIGSP" -> 8199
    [] c = "PUNCSP" -> 8200
    [] c = "THINSP" -> 8201
    [] c = "HAIRSP" -> 8202
    [] c = "LSEP" -> 8232
    [] c = "PSEP" -> 8233
    [] c = "NNBSP" -> 8239
    [] c = "MMSP" -> 8287
    [] c = "IDSP" -> 12288
    [] c = "BOM" -> 65279
    [] OTHER -> 0

\* Array.prototype.join.
RECURSIVE join(_, _)
join(parts, sep) ==
  IF Len(parts) = 0 THEN <<>>
  ELSE IF Len(parts) = 1 THEN parts[1]
  ELSE parts[1] \o sep \o join(Tail(parts), sep)

\* String.prototype.indexOf, 0-based, -1 when sub does not occur in s.
indexOf(s, sub) ==
  LET starts == {i \in 0..(Len(s) - Len(sub)) : SubSeq(s, i + 1, i + Len(sub)) = sub}
  IN IF starts = {} THEN -1
     ELSE CHOOSE i \in starts : \A j \in starts : i <= j

includes(s, sub) == indexOf(s, sub) # -1

\* s.replace(sub, by) with a string pattern: the first occurrence only.
replaceFirst(s, sub, by) ==
  LET i == indexOf(s, sub)
  IN IF i = -1 THEN s
     ELSE SubSeq(s, 1, i) \o by \o SubSeq(s, i + Len(sub) + 1, Len(s))

\* s.split(re) for a regular expression re that matches one character of seps.
RECURSIVE splitChars(_, _)
splitChars(s, seps) ==
  IF \A i \in 1..Len(s) : s[i] \notin seps THEN <<s>>
  ELSE LET i == CHOOSE k \in 1..Len(s) : s[k] \in seps /\ \A j \in 1..(k - 1) : s[j] \notin seps
       IN <<SubSeq(s, 1, i - 1)>> \o splitChars(SubSeq(s, i + 1, Len(s)), seps)

\* s.replace(re, '') with the 'all' scope (or the g flag), re one character of cs.
removeChars(s, cs) == SelectSeq(s, LAMBDA c : c \notin cs)

\* String.prototype.trim.
RECURSIVE trimStart(_)
trimStart(s) == IF Len(s) > 0 /\ s[1] \in WhiteSpace THEN trimStart(Tail(s)) ELSE s

RECURSIVE trimEnd(_)
trimEnd(s) ==
  IF Len(s) > 0 /\ s[Len(s)] \in WhiteSpace THEN trimEnd(SubSeq(s, 1, Len(s) - 1)) ELSE s

trim(s) == trimEnd(trimStart(s))

\* The first match of the regular expression  pad* ELLIPSIS pad*  in s, as the
\* 1-based positions of its first and last character; <<0, 0>> when s holds no
\* ellipsis.  A leftmost match starts at the run of pad characters before the
\* first ellipsis, and both stars are greedy.
ellipsisMatch(s, pad) ==
  IF \A i \in 1..Len(s) : s[i] # "ELLIPSIS" THEN <<0, 0>>
  ELSE LET e == CHOOSE k \in 1..Len(s) : s[k] = "ELLIPSIS" /\ \A j \in 1..(k - 1) : s[j] # "ELLIPSIS"
           from == CHOOSE a \in 1..e :
                     /\ \A j \in a..(e - 1) : s[j] \in pad
                     /\ (a = 1 \/ s[a - 1] \notin pad)
           to == CHOOSE b \in e..Len(s) :
                   /\ \A j \in (e + 1)..b : s[j] \in pad
                   /\ (b = Len(s) \/ s[b + 1] \notin pad)
       IN <<from, to>>

\* s.split(/ *ELLIPSIS */)
RECURSIVE splitEllipsis(_)
splitEllipsis(s) ==
  LET m == ellipsisMatch(s, {" "})
  IN IF m[1] = 0 THEN <<s>>
     ELSE <<SubSeq(s, 1, m[1] - 1)>> \o splitEllipsis(SubSeq(s, m[2] + 1, Len(s)))

\* s.replace(/([a-z])/, (match) => match.toUpperCase()): the first lower-case
\* ASCII letter of s is upper-cased.
upperCaseFirstLetter(s) ==
  IF \A i \in 1..Len(s) : ~IsLower(s[i]) THEN s
  ELSE LET i == CHOOSE k \in 1..Len(s) : IsLower(s[k]) /\ \A j \in 1..(k - 1) : ~IsLower(s[j])
       IN [s EXCEPT ![i] = ToUpperChar(s[i])]

\* Number to string, for a natural number.
RECURSIVE numberToString(_)
numberToString(n) ==
  IF n < 10 THEN <<Digits[n + 1]>>
  ELSE numberToString(n \div 10) \o <<Digits[(n % 10) + 1]>>

\* parseInt(s) without a radix: leading white space is skipped, a sign is
\* read, a prefix 0x or 0X makes the radix 16, and the longest run of digits
\* of the radix is the number; NaN when that run is empty.  The strings
\* given to parseInt hold no '-' (they are split on it, or come from the
\* branch of a part without it), so a parsed number is never negative and
\* NaN is modelled by a negative number.
NaN == -1

HexDigits == <<"0","1","2","3","4","5","6","7","8","9","a","b","c","d","e","f">>

\* The value of character c as a digit of the radix, -1 when it is none.
digitOf(c, radix) ==
  LET v == PosIn(ToLowerChar(c), HexDigits) - 1
  IN IF v >= 0 /\ v < radix THEN v ELSE -1

RECURSIVE digitsValue(_, _, _)
digitsValue(s, radix, acc) ==
  IF Len(s) = 0 \/ digitOf(s[1], radix) = -1 THEN acc
  ELSE digitsValue(Tail(s), radix, acc * radix + digitOf(s[1], radix))

parseInt(s) ==
  LET t == trimStart(s)
      u == IF Len(t) > 0 /\ t[1] = "+" THEN Tail(t) ELSE t
      hex == Len(u) >= 2 /\ u[1] = "0" /\ u[2] \in {"x", "X"}
      radix == IF hex THEN 16 ELSE 10
      digits == IF hex THEN SubSeq(u, 3, Len(u)) ELSE u
  IN IF Len(digits) = 0 \/ digitOf(digits[1], radix) = -1 THEN NaN
     ELSE digitsValue(digits, radix, 0)

\* `${verse}` for a parsed verse number.
verseToString(v) == IF v = NaN THEN <<"N", "a", "N">> ELSE numberToString(v)

(***************************************************************************)
(* Values                                                                  *)
(*                                                                         *)
(* A token of a verse is a record [payload, subType, position, scopes];    *)
(* scopes is the array of alignment scope labels, each a string.  A search *)
(* tuple is the array <<word, followsEllipsis>>, to which the scopes are   *)
(* pushed as a third element.  A call either returns a value or throws.    *)
(***************************************************************************)
\* The value undefined where an array of tokens is expected.
UndefinedTokens == << [undefined |-> TRUE] >>

\* The value undefined where a string is expected.
UndefinedString == << "UNDEFINED" >>

Return(v) == [return |-> v]

Throw == [throw |-> "TypeError"]

Threw(r) == "throw" \in DOMAIN r

(***************************************************************************)
(* searchULTWordRecords                                                    *)
(***************************************************************************)
\* The characters of /["'LDQUO LSQUO RDQUO RSQUO{}(),?:;.!]/
SentencePunctuation ==
  {"\"", "'", "LDQUO", "LSQUO", "RDQUO", "RSQUO", "{", "}", "(", ")", ",", "?", ":", ";", ".", "!"}

\* The characters of /[-\sMAQAF]/
WordSeparators == {"-", "MAQAF"} \cup WhiteSpace

\* The body of the loop over the search expressions: what one expression
\* pushes on ret.
searchExprTuples(searchExpr) ==
  LET stripped == removeChars(searchExpr, SentencePunctuation)
  IN IF includes(stripped, <<"ELLIPSIS">>)
       THEN LET searchExprParts == splitChars(stripped, {"ELLIPSIS"})
            IN << <<searchExprParts[1], FALSE>> >>
                 \o [i \in 1..(Len(searchExprParts) - 1) |-> <<searchExprParts[i + 1], TRUE>>]
       ELSE << <<stripped, FALSE>> >>

RECURSIVE concatTuples(_)
concatTuples(exprs) ==
  IF Len(exprs) = 0 THEN <<>>
  ELSE searchExprTuples(exprs[1]) \o concatTuples(Tail(exprs))

\* The list of two-tuples (search word, ellipsis flag), the paseq dropped.
intermediateSearchListOf(ULTSearchString) ==
  SelectSeq(concatTuples(splitChars(ULTSearchString, WordSeparators)),
            LAMBDA t : t[1] # <<"PASEQ">>)

\* Indexes are those of the code, 0-based: token k of the code is ULTTokenList[k + 1].
RECURSIVE getFirstWordIndex(_, _, _)
getFirstWordIndex(searchWord, ULTTokenList, startAt) ==
  IF startAt < Len(ULTTokenList)
    THEN IF ULTTokenList[startAt + 1].payload = searchWord THEN startAt
         ELSE getFirstWordIndex(searchWord, ULTTokenList, startAt + 1)
    ELSE -1

\* The inner while loop: the value of foundAllWords when it ends.
RECURSIVE followingWordsMatch(_, _, _, _)
followingWordsMatch(list, ULTTokens, ultIndex, searchIndex) ==
  IF ultIndex < Len(ULTTokens) /\ searchIndex < Len(list)
    THEN IF ULTTokens[ultIndex + 1].payload # list[searchIndex + 1][1] THEN FALSE
         ELSE followingWordsMatch(list, ULTTokens, ultIndex + 1, searchIndex + 1)
    ELSE TRUE

\* The outer while loop: the values of foundAllWords and startULTIndex when it ends.
RECURSIVE findStart(_, _, _)
findStart(list, ULTTokens, from) ==
  LET startULTIndex == getFirstWordIndex(list[1][1], ULTTokens, from)
  IN IF startULTIndex = -1 THEN [foundAllWords |-> FALSE, startULTIndex |-> -1]
     ELSE IF followingWordsMatch(list, ULTTokens, startULTIndex + 1, 1)
       THEN [foundAllWords |-> TRUE, startULTIndex |-> startULTIndex]
     ELSE findStart(list, ULTTokens, startULTIndex + 1)

\* The last while loop: the scopes of the tokens from startULTIndex are pushed
\* on the tuples, as long as there are tokens.
addScopes(list, ULTTokens, startULTIndex) ==
  [i \in 1..Len(list) |->
     IF startULTIndex + (i - 1) < Len(ULTTokens)
       THEN Append(list[i], ULTTokens[startULTIndex + i].scopes)
       ELSE list[i]]

\* What searchULTWordRecords returns once the loops have ended with found.
scopesOfMatch(list, ULTTokens, found) ==
  IF ~found.foundAllWords THEN Return(<<>>)
  ELSE Return(addScopes(list, ULTTokens, found.startULTIndex))

\* The search of the list of two-tuples in the tokens.  The first word of
\* an empty list (intermediateSearchList[0][0]) and the length of tokens
\* that are undefined (ULTTokenList.length) throw a TypeError.
matchSearchList(intermediateSearchList, ULTTokens) ==
  IF Len(intermediateSearchList) = 0 THEN Throw
  ELSE IF ULTTokens = UndefinedTokens THEN Throw
  ELSE scopesOfMatch(intermediateSearchList, ULTTokens,
                     findStart(intermediateSearchList, ULTTokens, 0))

searchULTWordRecords(ULTSearchString, ULTTokens) ==
  matchSearchList(intermediateSearchListOf(ULTSearchString), ULTTokens)

(***************************************************************************)
(* origLFromGLQuote                                                        *)
(***************************************************************************)
\* utils/tokens slimSourceTokens: the tokens reduced to their payload.
slimSourceTokens(tokens) == [i \in 1..Len(tokens) |-> [payload |-> tokens[i].payload]]

wordLike(tokens) == SelectSeq(tokens, LAMBDA t : t.subType = "wordLike")

\* `/${origLWord}:`
searchOrigLWordOf(origLWord) == <<"/">> \o origLWord \o <<":">>

\* A variant of tupleNamesWord that looks at the first scope only.
tupleNamesWordInFirstScope(ULTSearchThreeTuple, searchOrigLWord) ==
  IF Len(ULTSearchThreeTuple) < 3 THEN FALSE
  ELSE LET scopesArray == ULTSearchThreeTuple[3]
       IN IF Len(scopesArray) \in {1, 2}
            THEN indexOf(scopesArray[1], searchOrigLWord) # -1
          ELSE FALSE

\* The test made on one search tuple: its scopes array has one or two entries
\* and one of them holds the search key.  A tuple without scopes, or with any
\* other number of them, only logs a warning.
tupleNamesWord(ULTSearchThreeTuple, searchOrigLWord) ==
  IF Len(ULTSearchThreeTuple) < 3 THEN FALSE  \* scopesArray is undefined
  ELSE LET scopesArray == ULTSearchThreeTuple[3]
       IN IF Len(scopesArray) = 1
            THEN indexOf(scopesArray[1], searchOrigLWord) # -1
          ELSE IF Len(scopesArray) = 2
            THEN indexOf(scopesArray[1], searchOrigLWord) # -1
                   \/ indexOf(scopesArray[2], searchOrigLWord) # -1
          ELSE FALSE

\* A variant of wordPushes without the break statements.
RECURSIVE wordPushesNoBreak(_, _)
wordPushesNoBreak(origLWord, tuples) ==
  IF Len(tuples) = 0 THEN <<>>
  ELSE (IF tupleNamesWord(tuples[1], searchOrigLWordOf(origLWord)) THEN <<origLWord>> ELSE <<>>)
         \o wordPushesNoBreak(origLWord, Tail(tuples))

\* The loop over the search tuples for one original-language word: what it
\* pushes on origLQuoteWords.  The loop breaks after its first push.
RECURSIVE wordPushes(_, _)
wordPushes(origLWord, tuples) ==
  IF Len(tuples) = 0 THEN <<>>
  ELSE IF tupleNamesWord(tuples[1], searchOrigLWordOf(origLWord)) THEN <<origLWord>>
  ELSE wordPushes(origLWord, Tail(tuples))

\* The loop over the original-language words, in their order.
RECURSIVE origLQuoteWordsOf(_, _)
origLQuoteWordsOf(origLWordList, tuples) ==
  IF Len(origLWordList) = 0 THEN <<>>
  ELSE wordPushes(origLWordList[1], tuples) \o origLQuoteWordsOf(Tail(origLWordList), tuples)

\* The diagnostic of an empty projection: the fields the message embeds.
emptyMatchError(book, cv, ULTSearchString, searchOccurrence) ==
  [message |-> "EMPTY MATCH IN OrigL SOURCE", book |-> book, cv |-> cv,
   searchString |-> ULTSearchString, occurrence |-> searchOccurrence]

\* The value origLFromGLQuote returns for the words origLQuoteWords.
projectionResult(call, origLQuoteWords) ==
  IF Len(origLQuoteWords) = 0
    THEN Return([error |-> emptyMatchError(call.book, call.cv, call.ULTSearchString,
                                            call.searchOccurrence)])
    ELSE Return([data |-> origLQuoteWords])

\* The list of the payloads of the word-like original-language tokens.
origLWordListOf(sourceTokens) ==
  [i \in 1..Len(wordLike(sourceTokens)) |-> slimSourceTokens(wordLike(sourceTokens))[i].payload]

\* origLFromGLQuote after its call of searchULTWordRecords, which returned
\* or threw searched; sourceTokens.filter throws on tokens that are undefined.
projectTuples(call, sourceTokens, searched) ==
  IF Threw(searched) THEN Throw
  ELSE IF sourceTokens = UndefinedTokens THEN Throw
  ELSE projectionResult(call, origLQuoteWordsOf(origLWordListOf(sourceTokens), searched.return))

origLFromGLQuote(book, cv, sourceTokens, ULTTokens, ULTSearchString, searchOccurrence) ==
  projectTuples([book |-> book, cv |-> cv, ULTSearchString |-> ULTSearchString,
                 searchOccurrence |-> searchOccurrence],
                sourceTokens, searchULTWordRecords(ULTSearchString, ULTTokens))

(***************************************************************************)
(* getTidiedData                                                           *)
(***************************************************************************)
\* wordList.join(' ').replace(/\s*ELLIPSIS\s*/, ' & '): the first match only.
getTidiedData(wordList) ==
  LET joined == join(wordList, <<" ">>)
      m == ellipsisMatch(joined, WhiteSpace)
  IN IF m[1] = 0 THEN joined
     ELSE SubSeq(joined, 1, m[1] - 1) \o <<" ", "&", " ">> \o SubSeq(joined, m[2] + 1, Len(joined))

\* The code points of /[\u0590-\u05FF\uFB1D-\uFB4F\u0370-\u03FF\u1F00-\u1FFF]/
InHebrewOrGreekRange(n) ==
  \/ (1424 <= n /\ n <= 1535)
  \/ (64285 <= n /\ n <= 64335)
  \/ (880 <= n /\ n <= 1023)
  \/ (7936 <= n /\ n <= 8191)

containsHebrewOrGreek(text) ==
  \E i \in 1..Len(text) : InHebrewOrGreekRange(CodePoint(text[i]))

(***************************************************************************)
(* The collaborators: the book table, the table rows, the repository       *)
(***************************************************************************)
\* common/books BibleBookData, for the books of the model; the value
\* undefined is the record without fields.
BibleBookData(book) ==
  IF book = <<"t", "i", "t">> THEN [testament |-> "new", usfm |-> <<"5", "7", "-", "T", "I", "T">>]
  ELSE IF book = <<"r", "u", "t">> THEN [testament |-> "old", usfm |-> <<"0", "8", "-", "R", "U", "T">>]
  ELSE [undefined |-> TRUE]

IsUndefined(v) == "undefined" \in DOMAIN v

\* BibleBookData[book]?.testament, the string 'undefined' standing for undefined.
testamentOf(book) ==
  IF IsUndefined(BibleBookData(book)) THEN "undefined" ELSE BibleBookData(book).testament

\* utils/tsv parseTsvToObjects: a row of the table is the tuple of its fields
\* ref, id, quote, occurrence; a record names them.
parseTsvToObjects(tsvContent) ==
  [i \in 1..Len(tsvContent) |->
     [ref |-> tsvContent[i][1], id |-> tsvContent[i][2],
      quote |-> tsvContent[i][3], occurrence |-> tsvContent[i][4]]]

\* utils/tsv tsvRecordToString: the row of a record.
tsvRecordToString(tsvRecord) ==
  <<tsvRecord.ref, tsvRecord.id, tsvRecord.quote, tsvRecord.occurrence>>

(***************************************************************************)
(* The resolution of one record                                            *)
(***************************************************************************)
FailureTag ==
  <<"Q", "U", "O", "T", "E", "_", "N", "O", "T", "_", "F", "O", "U", "N", "D", ":", " ">>

HeaderLabel == <<"R", "e", "f", "e", "r", "e", "n", "c", "e">>

\* A variant of isPassedThrough without the test of the quote's script.
isPassedThroughWithoutScriptTest(tsvRecord) ==
  \/ tsvRecord.ref = UndefinedString \/ tsvRecord.ref = <<>>
  \/ tsvRecord.quote = UndefinedString \/ trim(tsvRecord.quote) = <<>>
  \/ tsvRecord.occurrence = UndefinedString \/ tsvRecord.occurrence = <<>>
  \/ tsvRecord.ref = HeaderLabel

\* The condition under which a record is pushed on output as it is.
isPassedThrough(tsvRecord) ==
  \/ tsvRecord.ref = UndefinedString \/ tsvRecord.ref = <<>>
  \/ tsvRecord.quote = UndefinedString \/ trim(tsvRecord.quote) = <<>>
  \/ tsvRecord.occurrence = UndefinedString \/ tsvRecord.occurrence = <<>>
  \/ tsvRecord.ref = HeaderLabel
  \/ containsHebrewOrGreek(tsvRecord.quote)

\* A variant of untaggedQuote that leaves the tag of an earlier run in place.
untaggedQuoteKeepingTag(quote) == quote

\* tsvRecord.quote.replace('QUOTE_NOT_FOUND: ', '')
untaggedQuote(quote) == replaceFirst(quote, FailureTag, <<>>)

\* The verses of one comma part of the verse reference.
commaPartVerses(commaPart) ==
  IF includes(commaPart, <<"-">>)
    THEN LET verseRange == splitChars(trim(commaPart), {"-"})
             first == parseInt(verseRange[1])
             last == parseInt(verseRange[2])
         IN IF Len(verseRange) > 1 /\ first # NaN /\ last # NaN /\ first <= last
              THEN [k \in 1..(last - first + 1) |-> first + (k - 1)]
              ELSE <<>>
    ELSE <<parseInt(commaPart)>>

RECURSIVE concatVerses(_)
concatVerses(verseCommaParts) ==
  IF Len(verseCommaParts) = 0 THEN <<>>
  ELSE commaPartVerses(verseCommaParts[1]) \o concatVerses(Tail(verseCommaParts))

\* The array verses built from the verse reference of a record.
versesOf(verseRef) == concatVerses(splitChars(trim(verseRef), {","}))

\* tsvRecord.quote.replace(/&/g, 'ELLIPSIS').replace(/[{}]/g, '')
cleanQuoteOf(quote) ==
  removeChars([i \in 1..Len(quote) |-> IF quote[i] = "&" THEN "ELLIPSIS" ELSE quote[i]],
              {"{", "}"})

\* The array quotesToTry: a variant is a string, [string |-> s], or the
\* array of the parts of an ellipsis quote, [list |-> parts].
quotesToTryOf(quote) ==
  LET cleanQuote == cleanQuoteOf(quote)
      cleanQuoteUC == upperCaseFirstLetter(cleanQuote)
  IN << [string |-> cleanQuote] >>
     \o (IF quote # cleanQuote THEN << [string |-> quote] >> ELSE <<>>)
     \o (IF includes(cleanQuote, <<"ELLIPSIS">>)
           THEN << [list |-> splitEllipsis(cleanQuote)] >>
                \o (IF quote # cleanQuote THEN << [list |-> splitEllipsis(quote)] >> ELSE <<>>)
           ELSE <<>>)
     \o (IF cleanQuote # cleanQuoteUC
           THEN << [string |-> cleanQuoteUC] >>
                \o (IF includes(cleanQuoteUC, <<"ELLIPSIS">>)
                      THEN << [list |-> splitEllipsis(cleanQuoteUC)] >>
                      ELSE <<>>)
           ELSE <<>>)

\* The call of origLFromGLQuote made for a verse: c holds book, cv, the
\* tokens of the verse and the occurrence of the record.
projectQuote(c, quote) ==
  origLFromGLQuote(c.book, c.cv, c.sourceTokens, c.wordLikeULTTokens, quote, c.occurrence)

HasData(resultObject) == "data" \in DOMAIN resultObject

\* The loop over the parts of a list variant: each part is tried as it is,
\* then with its first letter upper-cased; the loop breaks at the first part
\* that does not resolve.  The value is resultObject and partsConverted when
\* the loop ends, or a throw.
RECURSIVE convertParts(_, _, _, _)
RECURSIVE afterPart(_, _, _, _, _)
RECURSIVE afterPartUpperCased(_, _, _, _, _)
convertParts(c, parts, partsConverted, resultObject) ==
  IF Len(parts) = 0
    THEN [threw |-> FALSE, resultObject |-> resultObject, partsConverted |-> partsConverted]
    ELSE afterPart(c, parts, partsConverted, resultObject, projectQuote(c, parts[1]))

\* The part was tried as it is, with the outcome asIs.
afterPart(c, parts, partsConverted, resultObject, asIs) ==
  IF Threw(asIs)
    THEN [threw |-> TRUE, resultObject |-> resultObject, partsConverted |-> partsConverted]
  ELSE IF HasData(asIs.return)
    THEN convertParts(c, Tail(parts), Append(partsConverted, getTidiedData(asIs.return.data)),
                      asIs.return)
  ELSE afterPartUpperCased(c, parts, partsConverted, resultObject,
                           projectQuote(c, upperCaseFirstLetter(parts[1])))

\* The part was tried with its first letter upper-cased, with the outcome upper.
afterPartUpperCased(c, parts, partsConverted, resultObject, upper) ==
  IF Threw(upper)
    THEN [threw |-> TRUE, resultObject |-> resultObject, partsConverted |-> partsConverted]
  ELSE IF HasData(upper.return)
    THEN convertParts(c, Tail(parts), Append(partsConverted, getTidiedData(upper.return.data)),
                      upper.return)
  ELSE [threw |-> FALSE, resultObject |-> upper.return, partsConverted |-> partsConverted]

\* The loop over quotesToTry: the value of resultObject when it ends, or a throw.
RECURSIVE tryQuotes(_, _, _)
RECURSIVE afterStringVariant(_, _, _)
RECURSIVE afterListVariant(_, _, _)
tryQuotes(c, quotesToTry, resultObject) ==
  IF Len(quotesToTry) = 0 THEN Return(resultObject)
  ELSE IF "string" \in DOMAIN quotesToTry[1]
    THEN afterStringVariant(c, quotesToTry, projectQuote(c, quotesToTry[1].string))
  ELSE afterListVariant(c, quotesToTry, convertParts(c, quotesToTry[1].list, <<>>, resultObject))

\* The string variant quotesToTry[1] was tried, with the outcome r.
afterStringVariant(c, quotesToTry, r) ==
  IF Threw(r) THEN Throw
  ELSE IF HasData(r.return) THEN Return(r.return)
  ELSE tryQuotes(c, Tail(quotesToTry), r.return)

\* The parts of the list variant quotesToTry[1] were tried, with the outcome conv.
afterListVariant(c, quotesToTry, conv) ==
  IF conv.threw THEN Throw
  ELSE IF Len(conv.partsConverted) = Len(quotesToTry[1].list)
    THEN Return([data |-> << join(conv.partsConverted, <<" ", "&", " ">>) >>])
  ELSE tryQuotes(c, Tail(quotesToTry), conv.resultObject)

(***************************************************************************)
(* The documents of the repository                                         *)
(*                                                                         *)
(* The words of the verses, the alignment scopes the gloss tokens carry    *)
(* after rejigAlignment, and the item groups of the two documents of a     *)
(* book as the query of doAlignmentQuery returns them.                     *)
(***************************************************************************)
W_love == <<"l", "o", "v", "e">>

W_your == <<"y", "o", "u", "r">>

W_neighbor == <<"n", "e", "i", "g", "h", "b", "o", "r">>

W_the == <<"t", "h", "e">>

W_poor == <<"p", "o", "o", "r">>

W_Blessed == <<"B", "l", "e", "s", "s", "e", "d">>

W_are == <<"a", "r", "e">>

W_foo == <<"f", "o", "o">>

W_bar == <<"b", "a", "r">>

W_agapao == <<"a", "g", "a", "p", "a", "o">>

W_plesion == <<"p", "l", "e", "s", "i", "o", "n">>

W_sou == <<"s", "o", "u">>

W_hoi == <<"h", "o", "i">>

W_ptochoi == <<"p", "t", "o", "c", "h", "o", "i">>

W_makarioi == <<"m", "a", "k", "a", "r", "i", "o", "i">>

W_kai == <<"k", "a", "i">>

\* An alignment scope label naming occurrence n of an original-language word.
alignmentScope(word, n) ==
  <<"x", "-", "a", "l", "i", "g", "n", "/">> \o word \o <<":">> \o numberToString(n)

wordToken(payload, position, scopes) ==
  [payload |-> payload, subType |-> "wordLike", position |-> position, scopes |-> scopes]

otherToken(payload, subType, position) ==
  [payload |-> payload, subType |-> subType, position |-> position, scopes |-> <<>>]

itemGroup(chapter, verses, tokens) ==
  [chapter |-> chapter, verses |-> verses, tokens |-> tokens]

\* The gloss document.  1:1 love your neighbor / 1:2 neighbor love /
\* 1:3 no token / 1:4 love / 5:3 Blessed are / 5:4 the poor,
ULTItemGroups ==
  << itemGroup(<<"1">>, <<"1">>,
       << wordToken(W_love, 0, <<alignmentScope(W_agapao, 1)>>),
          otherToken(<<" ">>, "space", 1),
          wordToken(W_your, 2, <<alignmentScope(W_sou, 1)>>),
          otherToken(<<" ">>, "space", 3),
          wordToken(W_neighbor, 4, <<alignmentScope(W_plesion, 1)>>) >>),
     itemGroup(<<"1">>, <<"2">>,
       << wordToken(W_neighbor, 0, <<alignmentScope(W_plesion, 1)>>),
          otherToken(<<" ">>, "space", 1),
          wordToken(W_love, 2, <<alignmentScope(W_agapao, 1)>>) >>),
     itemGroup(<<"1">>, <<"3">>, <<>>),
     itemGroup(<<"1">>, <<"4">>,
       << wordToken(W_love, 0, <<alignmentScope(W_agapao, 1)>>) >>),
     itemGroup(<<"5">>, <<"3">>,
       << wordToken(W_Blessed, 0, <<alignmentScope(W_makarioi, 1)>>),
          otherToken(<<" ">>, "space", 1),
          wordToken(W_are, 2, <<>>) >>),
     itemGroup(<<"5">>, <<"4">>,
       << wordToken(W_the, 0, <<alignmentScope(W_hoi, 1)>>),
          otherToken(<<" ">>, "space", 1),
          wordToken(W_poor, 2, <<alignmentScope(W_hoi, 1), alignmentScope(W_ptochoi, 1)>>),
          otherToken(<<",">>, "punctuation", 3) >>) >>

\* The original-language document.  Verse 1:4 is not in it, verse 1:5 is not
\* in the gloss document, and verse 1:9 is in neither.
OrigLItemGroups ==
  << itemGroup(<<"1">>, <<"1">>,
       << wordToken(W_agapao, 0, <<>>), otherToken(<<" ">>, "space", 1),
          wordToken(W_plesion, 2, <<>>), otherToken(<<" ">>, "space", 3),
          wordToken(W_sou, 4, <<>>) >>),
     itemGroup(<<"1">>, <<"2">>,
       << wordToken(W_plesion, 0, <<>>), otherToken(<<" ">>, "space", 1),
          wordToken(W_agapao, 2, <<>>) >>),
     itemGroup(<<"1">>, <<"3">>, <<>>),
     itemGroup(<<"1">>, <<"5">>,
       << wordToken(W_agapao, 0, <<>>) >>),
     itemGroup(<<"5">>, <<"3">>,
       << wordToken(W_makarioi, 0, <<>>) >>),
     itemGroup(<<"5">>, <<"4">>,
       << wordToken(W_hoi, 0, <<>>), otherToken(<<" ">>, "space", 1),
          wordToken(W_ptochoi, 2, <<>>), otherToken(<<".">>, "punctuation", 3) >>) >>

\* The document axios fetches from the repository for the selector abbr and
\* the USFM file name of the book: its book code and its item groups.
repositoryDocument(abbr, usfm) ==
  [abbr |-> abbr,
   book |-> SubSeq(usfm, 4, Len(usfm)),
   itemGroups |-> IF abbr = "ult" THEN ULTItemGroups ELSE OrigLItemGroups]

(***************************************************************************)
(* The inputs: the book and the rows of the table                          *)
(***************************************************************************)
\* 1st part not last in the verse
Row_loveNeighbor ==
  <<<<"1", ":", "1">>, <<"n", "0", "1">>,
    <<"l", "o", "v", "e", " ", "ELLIPSIS", " ", "n", "e", "i", "g", "h", "b", "o", "r">>,
    <<"1">>>>

\* 1st part is the last token of the verse
Row_loveNeighborAtEnd ==
  <<<<"1", ":", "2">>, <<"n", "0", "2">>,
    <<"l", "o", "v", "e", " ", "ELLIPSIS", " ", "n", "e", "i", "g", "h", "b", "o", "r">>,
    <<"1">>>>

\* Verse 3 fails, verse 4 resolves
Row_thePoor ==
  <<<<"5", ":", "3", ",", "4">>, <<"n", "0", "3">>,
    <<"t", "h", "e", " ", "p", "o", "o", "r">>,
    <<"1">>>>

\* Resolves by the upper-case variant in verse 3
Row_blessedRange ==
  <<<<"5", ":", "3", "-", "4">>, <<"n", "0", "4">>,
    <<"b", "l", "e", "s", "s", "e", "d", " ", "a", "r", "e">>,
    <<"1">>>>

\* A range that expands to no verse
Row_backwardRange ==
  <<<<"5", ":", "4", "-", "3">>, <<"n", "0", "5">>,
    <<"t", "h", "e", " ", "p", "o", "o", "r">>,
    <<"1">>>>

\* The output of an earlier failed run
Row_tagged ==
  <<<<"5", ":", "3", ",", "4">>, <<"n", "0", "6">>,
    <<"Q", "U", "O", "T", "E", "_", "N", "O", "T", "_", "F", "O", "U", "N", "D", ":", " ", "f", "o", "o", " ", "b", "a", "r">>,
    <<"1">>>>

\* A quote with a Hebrew letter
Row_hebrew ==
  <<<<"1", ":", "1">>, <<"n", "0", "8">>,
    <<"ALEF", "l", "o", "v", "e">>,
    <<"1">>>>

\* The header row
Row_header ==
  <<<<"R", "e", "f", "e", "r", "e", "n", "c", "e">>, <<"I", "D">>,
    <<"Q", "u", "o", "t", "e">>,
    <<"1">>>>

\* No token list for the verse
Row_absentVerse ==
  <<<<"1", ":", "9">>, <<"n", "1", "1">>,
    <<"l", "o", "v", "e">>,
    <<"1">>>>

\* A row without a quote field.
Row_missingQuote == <<<<"1", ":", "1">>, <<"n", "1", "4">>, UndefinedString, <<"1">>>>

Rows ==
  {Row_loveNeighbor,
   Row_loveNeighborAtEnd,
   Row_thePoor,
   Row_blessedRange,
   Row_backwardRange,
   Row_tagged,
   Row_hebrew,
   Row_header,
   Row_absentVerse,
   Row_missingQuote}

\* The longest table of the model.
MaxRows == 2

Tables == UNION {[1..n -> Rows] : n \in 0..MaxRows}

\* A New Testament book, an Old Testament book in upper case, no book.
Books == {<<"t", "i", "t">>, <<"R", "U", "T">>, <<"x", "y", "z">>}

(***************************************************************************)
(* The state                                                               *)
(***************************************************************************)
VARIABLES
  book,          \* the argument book
  tsvContent,    \* the argument tsvContent, as the rows of the table
  importedBooks, \* the module's array importedBooks
  pk,            \* the documents imported into the Proskomma instance
  tokenLookup,   \* the module's tokenLookup: abbr -> book code -> chapter:verse -> tokens
  promise,       \* the promise returned: its state and its value
  pc,            \* where the invocation stands
  fetchIndex,    \* the index in baseURLs of the request awaited
  thrown,        \* the error a rejection of the promise chain carries
  tsvRecords,    \* the records parsed from tsvContent (quote is rewritten in place)
  nRecords,      \* the number of records taken from tsvRecords
  counts,        \* the pass and fail counters
  output,
  errors,
  chapter,       \* the chapter of the record being resolved
  verses,        \* its array verses
  verseIdx,      \* the index in verses of the next verse to try
  requests,      \* the requests started by axios.request, in order
  queries,       \* the number of pk.gqlQuery calls started by doAlignmentQuery
  attempts,      \* a log of the iterations of the loop over verses: the record, the
                 \* loop variables, the variants tried and the outcome
  inp,           \* the arguments of a function applied on its own
  res            \* its result

vars ==
  <<book, tsvContent, importedBooks, pk, tokenLookup, promise, pc, fetchIndex, thrown,
    tsvRecords, nRecords, counts, output, errors, chapter, verses, verseIdx,
    requests, queries, attempts, inp, res>>

moduleVars == <<importedBooks, pk, tokenLookup>>

recordVars == <<tsvRecords, nRecords, counts, output, errors, chapter, verses, verseIdx, attempts>>

functionVars == <<inp, res>>

Pending == [state |-> "pending"]

\* resolve and reject settle a pending promise and leave a settled one as it is.
settle(p, state, value) ==
  IF p.state = "pending" THEN [state |-> state, value |-> value] ELSE p

(***************************************************************************)
(* getDocuments and doAlignmentQuery                                       *)
(***************************************************************************)
\* The selector abbr of the original-language document: ol_bible.split('_')[1].
origLAbbr(testament) == IF testament = "old" THEN "uhb" ELSE "ugnt"

\* The array baseURLs: the selector abbr and the USFM file of each request.
baseURLs(lowerBook) ==
  << [abbr |-> origLAbbr(testamentOf(lowerBook)), usfm |-> BibleBookData(lowerBook).usfm],
     [abbr |-> "ult", usfm |-> BibleBookData(lowerBook).usfm] >>

\* A variant of getDocumentsEntry in which a book that is no Bible book
\* returns, as the test of ol_bible means it to.
getDocumentsEntryReturning(bookArg, imported) ==
  LET lowerBook == toLowerCase(bookArg)
  IN IF \E i \in 1..Len(imported) : imported[i] = lowerBook THEN "return"
     ELSE IF IsUndefined(BibleBookData(lowerBook)) THEN "return"
     ELSE "fetch"

\* getDocuments up to its first await.  ol_bible is one of two non-empty
\* strings, so the test !ol_bible never returns; for a book that is no Bible
\* book the evaluation of BibleBookData[book].usfm throws.
getDocumentsEntry(bookArg, imported) ==
  LET lowerBook == toLowerCase(bookArg)
  IN IF \E i \in 1..Len(imported) : imported[i] = lowerBook THEN "return"
     ELSE IF IsUndefined(BibleBookData(lowerBook)) THEN "throw"
     ELSE "fetch"

\* The verses an item group stands for: its scope label verses/a-b split on '-'.
itemGroupKeys(group) ==
  LET vs == splitChars(group.verses, {"-"})
  IN {group.chapter \o <<":">> \o vs[i] : i \in 1..Len(vs)}

\* tokenLookup[abbr][book] as the loop over the item groups fills it.
RECURSIVE verseTokens(_)
verseTokens(itemGroups) ==
  IF Len(itemGroups) = 0 THEN [cv \in {} |-> <<>>]
  ELSE LET last == itemGroups[Len(itemGroups)]
           before == verseTokens(SubSeq(itemGroups, 1, Len(itemGroups) - 1))
       IN [cv \in (DOMAIN before) \cup itemGroupKeys(last) |->
             IF cv \in itemGroupKeys(last) THEN last.tokens ELSE before[cv]]

\* tokenLookup as doAlignmentQuery rebuilds it from the documents of pk.
tokenLookupOf(docs) ==
  [abbr \in {d.abbr : d \in docs} |->
     [bookCode \in {d.book : d \in {e \in docs : e.abbr = abbr}} |->
        verseTokens((CHOOSE d \in docs : d.abbr = abbr /\ d.book = bookCode).itemGroups)]]

\* tokenLookup?.[abbr]?.[bookCode] is defined.
hasBook(lookup, abbr, bookCode) ==
  abbr \in DOMAIN lookup /\ bookCode \in DOMAIN lookup[abbr]

\* lookup[abbr][bookCode][cv]: a throw when lookup[abbr] or lookup[abbr][bookCode]
\* is undefined, and undefined when the verse has no entry.
verseLookup(lookup, abbr, bookCode, cv) ==
  IF ~hasBook(lookup, abbr, bookCode) THEN Throw
  ELSE IF cv \in DOMAIN lookup[abbr][bookCode] THEN Return(lookup[abbr][bookCode][cv])
  ELSE Return(UndefinedTokens)

(***************************************************************************)
(* One verse of a record                                                   *)
(***************************************************************************)
\* `${chapter}:${verse}`
cvOf(chapterArg, verse) == chapterArg \o <<":">> \o verseToString(verse)

\* allULTTokens?.filter(wordLike).map(({ subType, position, ...rest }) => rest)
wordLikeULTTokensOf(allULTTokens) ==
  IF allULTTokens = UndefinedTokens THEN UndefinedTokens
  ELSE LET kept == wordLike(allULTTokens)
       IN [i \in 1..Len(kept) |-> [payload |-> kept[i].payload, scopes |-> kept[i].scopes]]

\* The body of the loop over verses up to the test of resultObject: the
\* value of resultObject, or a throw.
resolveInVerse(lookup, bookArg, tsvRecord, chapterArg, verse) ==
  LET bookCode == toUpperCase(bookArg)
      cv == cvOf(chapterArg, verse)
      source == verseLookup(lookup, origLAbbr(testamentOf(toLowerCase(bookArg))), bookCode, cv)
      ult == verseLookup(lookup, "ult", bookCode, cv)
  IN IF Threw(source) \/ Threw(ult) THEN Throw
     ELSE tryQuotes([book |-> bookArg, cv |-> cv, sourceTokens |-> source.return,
                     wordLikeULTTokens |-> wordLikeULTTokensOf(ult.return),
                     occurrence |-> tsvRecord.occurrence],
                    quotesToTryOf(tsvRecord.quote), [null |-> TRUE])

\* A variant of verseOutcome that commits the failure of any verse.
verseOutcomeWithoutContinue(resultObject, idx, nVerses) ==
  IF HasData(resultObject) THEN "pass" ELSE "fail"

\* What the loop over verses does with resultObject: commit the record as
\* passed, go on to the next verse, or commit it as failed.
verseOutcome(resultObject, idx, nVerses) ==
  IF HasData(resultObject) THEN "pass"
  ELSE IF idx < nVerses - 1 THEN "continue"
  ELSE "fail"

\* `Error: ${book} ${cv} ${tsvRecord.id} ${resultObject.error}`
errorMsgOf(bookArg, cv, tsvRecord, resultObject) ==
  [book |-> bookArg, cv |-> cv, id |-> tsvRecord.id, error |-> resultObject.error]

\* `ERROR: Book ${book} not a valid Bible book`
invalidBookMsg(bookArg) == [message |-> "not a valid Bible book", book |-> bookArg]

(***************************************************************************)
(* The invocation tsv7_ult_quotes_to_origl_quotes(book, tsvContent)        *)
(***************************************************************************)
\* The module state before the invocation: a fresh process, or a process
\* in which an earlier invocation has imported and indexed the book tit.
titDocuments ==
  {repositoryDocument(baseURLs(<<"t", "i", "t">>)[i].abbr, baseURLs(<<"t", "i", "t">>)[i].usfm) :
     i \in 1..2}

ModuleStates ==
  { [importedBooks |-> <<>>, pk |-> {}, tokenLookup |-> tokenLookupOf({})],
    [importedBooks |-> << <<"t", "i", "t">> >>, pk |-> titDocuments,
     tokenLookup |-> tokenLookupOf(titDocuments)] }

InitInvocation ==
  /\ book \in Books
  /\ tsvContent \in Tables
  /\ \E m \in ModuleStates :
       /\ importedBooks = m.importedBooks
       /\ pk = m.pk
       /\ tokenLookup = m.tokenLookup
  /\ promise = Pending
  /\ pc = "start"
  /\ fetchIndex = 0
  /\ thrown = "none"
  /\ tsvRecords = <<>>
  /\ nRecords = 0
  /\ counts = [pass |-> 0, fail |-> 0]
  /\ output = <<>>
  /\ errors = <<>>
  /\ chapter = <<>>
  /\ verses = <<>>
  /\ verseIdx = 0
  /\ requests = <<>>
  /\ queries = 0
  /\ attempts = <<>>

Init ==
  /\ InitInvocation
  /\ inp = <<>>
  /\ res = <<>>

\* The executor of the promise: the test of the book, which rejects and
\* returns to the code after it, and the call of getDocuments up to its
\* first await.
Invoke ==
  /\ pc = "start"
  /\ promise' = IF testamentOf(toLowerCase(book)) = "undefined"
                  THEN settle(promise, "rejected", invalidBookMsg(book))
                  ELSE promise
  /\ LET entry == getDocumentsEntry(book, importedBooks)
     IN IF entry = "return"
          THEN pc' = "then" /\ UNCHANGED <<fetchIndex, thrown, requests>>
        ELSE IF entry = "throw"
          THEN pc' = "catch" /\ thrown' = "TypeError" /\ UNCHANGED <<fetchIndex, requests>>
        ELSE /\ pc' = "fetching"
             /\ fetchIndex' = 1
             /\ requests' = Append(requests, baseURLs(toLowerCase(book))[1])
             /\ UNCHANGED thrown
  /\ UNCHANGED <<book, tsvContent, moduleVars, recordVars, queries, functionVars>>

\* The response of the request awaited: its content is decoded and given to
\* pk.importDocuments, which imports the document or throws (the USFM is
\* not parsed, or the document already exists in the docSet); the throw is
\* caught and logged, and pk is left as it is.  Then the next request
\* starts, or the book is pushed on importedBooks.
FetchResponse ==
  /\ pc = "fetching"
  /\ LET url == baseURLs(toLowerCase(book))[fetchIndex]
     IN \E importThrows \in BOOLEAN :
          pk' = IF importThrows THEN pk ELSE pk \cup {repositoryDocument(url.abbr, url.usfm)}
  /\ IF fetchIndex < 2
       THEN /\ fetchIndex' = fetchIndex + 1
            /\ requests' = Append(requests, baseURLs(toLowerCase(book))[fetchIndex + 1])
            /\ UNCHANGED <<pc, importedBooks>>
       ELSE /\ importedBooks' = Append(importedBooks, toLowerCase(book))
            /\ pc' = "then"
            /\ UNCHANGED <<fetchIndex, requests>>
  /\ UNCHANGED <<book, tsvContent, tokenLookup, promise, thrown, recordVars, queries, functionVars>>

\* The response of the request awaited has no field content:
\* Buffer.from(undefined) throws in the callback and getDocuments rejects.
FetchResponseWithoutContent ==
  /\ pc = "fetching"
  /\ pc' = "catch"
  /\ thrown' = "TypeError"
  /\ UNCHANGED <<book, tsvContent, moduleVars, promise, fetchIndex, recordVars, requests,
                 queries, functionVars>>

\* The request awaited fails: getDocuments rejects.
FetchFailure ==
  /\ pc = "fetching"
  /\ pc' = "catch"
  /\ thrown' = "AxiosError"
  /\ UNCHANGED <<book, tsvContent, moduleVars, promise, fetchIndex, recordVars, requests,
                 queries, functionVars>>

\* The records are parsed and the counters start at zero.
startRecords ==
  /\ pc' = "records"
  /\ tsvRecords' = parseTsvToObjects(tsvContent)
  /\ nRecords' = 0
  /\ counts' = [pass |-> 0, fail |-> 0]
  /\ UNCHANGED <<output, errors, chapter, verses, verseIdx, attempts>>

\* The then callback: doAlignmentQuery is called when tokenLookup lacks the
\* book in the gloss or in the original-language corpus.
Then ==
  /\ pc = "then"
  /\ IF \/ ~hasBook(tokenLookup, "ult", toUpperCase(book))
        \/ ~hasBook(tokenLookup, origLAbbr(testamentOf(toLowerCase(book))), toUpperCase(book))
       THEN /\ pc' = "querying"
            /\ queries' = queries + 1
            /\ UNCHANGED recordVars
       ELSE /\ startRecords
            /\ UNCHANGED queries
  /\ UNCHANGED <<book, tsvContent, moduleVars, promise, fetchIndex, thrown, requests, functionVars>>

\* The query returns: tokenLookup is rebuilt from every document of pk, and
\* doAlignmentQuery ends; the then callback waits to be resumed.
QueryResult ==
  /\ pc = "querying"
  /\ tokenLookup' = tokenLookupOf(pk)
  /\ pc' = "queried"
  /\ UNCHANGED <<book, tsvContent, importedBooks, pk, promise, fetchIndex, thrown, recordVars,
                 requests, queries, functionVars>>

\* The then callback resumes after the await of doAlignmentQuery.
ResumeThen ==
  /\ pc = "queried"
  /\ startRecords
  /\ UNCHANGED <<book, tsvContent, moduleVars, promise, fetchIndex, thrown, requests,
                 queries, functionVars>>

\* The query returns errors: doAlignmentQuery throws.
QueryErrors ==
  /\ pc = "querying"
  /\ pc' = "catch"
  /\ thrown' = "Error"
  /\ UNCHANGED <<book, tsvContent, moduleVars, promise, fetchIndex, recordVars, requests,
                 queries, functionVars>>

\* The next record of the loop over tsvRecords, up to the loop over verses.
NextRecord ==
  /\ pc = "records"
  /\ nRecords < Len(tsvRecords)
  /\ nRecords' = nRecords + 1
  /\ LET tsvRecord == tsvRecords[nRecords + 1]
     IN IF isPassedThrough(tsvRecord)
          THEN /\ output' = Append(output, tsvRecordToString(tsvRecord))
               /\ UNCHANGED <<pc, thrown, tsvRecords, chapter, verses, verseIdx>>
          ELSE LET refParts == splitChars(tsvRecord.ref, {":"})
               IN /\ tsvRecords' = [tsvRecords EXCEPT ![nRecords + 1].quote = untaggedQuote(@)]
                  /\ IF Len(refParts) < 2
                       THEN /\ pc' = "catch"      \* verseRef.trim() of undefined
                            /\ thrown' = "TypeError"
                            /\ UNCHANGED <<chapter, verses, verseIdx>>
                       ELSE /\ chapter' = refParts[1]
                            /\ verses' = versesOf(refParts[2])
                            /\ verseIdx' = 0
                            /\ pc' = "verses"
                            /\ UNCHANGED thrown
                  /\ UNCHANGED output
  /\ UNCHANGED <<book, tsvContent, moduleVars, promise, fetchIndex, counts, errors, requests,
                 queries, attempts, functionVars>>

\* The outcome of the body of the loop for the result of resolveInVerse.
outcomeOf(result, idx, nVerses) ==
  IF Threw(result) THEN "throw" ELSE verseOutcome(result.return, idx, nVerses)

\* The end of an iteration of the loop over verses, for the record
\* tsvRecord, the verse cv, the result of resolveInVerse and its outcome.
CommitVerse(tsvRecord, cv, result, outcome) ==
  /\ attempts' = Append(attempts, [record |-> nRecords, idx |-> verseIdx, verses |-> verses,
                                   cv |-> cv, quotesToTry |-> quotesToTryOf(tsvRecord.quote),
                                   outcome |-> outcome])
  /\ IF outcome = "throw"
       THEN /\ pc' = "catch"
            /\ thrown' = "TypeError"
            /\ UNCHANGED <<tsvRecords, counts, output, errors, verseIdx>>
     ELSE IF outcome = "pass"
       THEN /\ counts' = [counts EXCEPT !.pass = @ + 1]
            /\ tsvRecords' = [tsvRecords EXCEPT ![nRecords].quote = getTidiedData(result.return.data)]
            /\ output' = Append(output, tsvRecordToString(tsvRecords'[nRecords]))
            /\ pc' = "records"
            /\ UNCHANGED <<thrown, errors, verseIdx>>
     ELSE IF outcome = "continue"
       THEN /\ verseIdx' = verseIdx + 1
            /\ UNCHANGED <<pc, thrown, tsvRecords, counts, output, errors>>
     ELSE /\ tsvRecords' = [tsvRecords EXCEPT ![nRecords].quote = FailureTag \o @]
          /\ output' = Append(output, tsvRecordToString(tsvRecords'[nRecords]))
          /\ counts' = [counts EXCEPT !.fail = @ + 1]
          /\ errors' = Append(errors, errorMsgOf(book, cv, tsvRecord, result.return))
          /\ pc' = "records"
          /\ UNCHANGED <<thrown, verseIdx>>

\* The iteration of the loop over verses for the result of resolveInVerse.
VerseStep(tsvRecord, cv, result) ==
  CommitVerse(tsvRecord, cv, result, outcomeOf(result, verseIdx, Len(verses)))

\* One iteration of the loop over verses.
TryVerse ==
  /\ pc = "verses"
  /\ verseIdx < Len(verses)
  /\ VerseStep(tsvRecords[nRecords], cvOf(chapter, verses[verseIdx + 1]),
               resolveInVerse(tokenLookup, book, tsvRecords[nRecords], chapter,
                              verses[verseIdx + 1]))
  /\ UNCHANGED <<book, tsvContent, moduleVars, promise, fetchIndex, nRecords, chapter, verses,
                 requests, queries, functionVars>>

\* The loop over verses has no verse to iterate on.
NoVerse ==
  /\ pc = "verses"
  /\ verseIdx >= Len(verses)
  /\ pc' = "records"
  /\ UNCHANGED <<book, tsvContent, moduleVars, promise, fetchIndex, thrown, recordVars, requests,
                 queries, functionVars>>

\* After the last record: resolve({ output, errors }).
Resolve ==
  /\ pc = "records"
  /\ nRecords = Len(tsvRecords)
  /\ promise' = settle(promise, "resolved", [output |-> output, errors |-> errors])
  /\ pc' = "done"
  /\ UNCHANGED <<book, tsvContent, moduleVars, fetchIndex, thrown, recordVars, requests, queries,
                 functionVars>>

\* The catch callback: reject(err).
Catch ==
  /\ pc = "catch"
  /\ promise' = settle(promise, "rejected", [message |-> thrown])
  /\ pc' = "done"
  /\ UNCHANGED <<book, tsvContent, moduleVars, fetchIndex, thrown, recordVars, requests, queries,
                 functionVars>>

(***************************************************************************)
(* searchULTWordRecords and origLFromGLQuote applied on their own          *)
(***************************************************************************)
\* No invocation is under way.
NoInvocation ==
  /\ book = <<"t", "i", "t">>
  /\ tsvContent = <<>>
  /\ importedBooks = <<>>
  /\ pk = {}
  /\ tokenLookup = tokenLookupOf({})
  /\ promise = Pending
  /\ fetchIndex = 0
  /\ thrown = "none"
  /\ tsvRecords = <<>>
  /\ nRecords = 0
  /\ counts = [pass |-> 0, fail |-> 0]
  /\ output = <<>>
  /\ errors = <<>>
  /\ chapter = <<>>
  /\ verses = <<>>
  /\ verseIdx = 0
  /\ requests = <<>>
  /\ queries = 0
  /\ attempts = <<>>

invocationVars ==
  <<book, tsvContent, importedBooks, pk, tokenLookup, promise, fetchIndex, thrown,
    tsvRecords, nRecords, counts, output, errors, chapter, verses, verseIdx,
    requests, queries, attempts>>

\* The longest search phrase, in words; the longest verse, in gloss tokens
\* and in original-language words.
MaxPhraseWords == 2

MaxTokens == 2

MaxOrigLWords == 2

SeqsUpTo(S, n) == UNION {[1..k -> S] : k \in 0..n}

\* The words of the search phrases and of the gloss tokens.
GlossWords == {W_the, W_poor}

\* The words of the original-language verse.
OrigLWords == {W_hoi, W_ptochoi}

\* The scopes arrays of a gloss token: one scope, two scopes, three scopes.
ScopesArrays ==
  { <<alignmentScope(W_hoi, 1)>>,
    <<alignmentScope(W_ptochoi, 1), alignmentScope(W_hoi, 1)>>,
    <<alignmentScope(W_kai, 1), alignmentScope(W_kai, 2), alignmentScope(W_ptochoi, 1)>> }

\* The word-like gloss tokens of a verse, as wordLikeULTTokensOf leaves them.
GlossTokens == [payload : GlossWords, scopes : ScopesArrays]

\* The phrases of one word and more, the words joined by a space.
Phrases == SeqsUpTo(GlossWords, MaxPhraseWords) \ {<<>>}

InitSearch ==
  /\ NoInvocation
  /\ pc = "call"
  /\ inp \in [words : Phrases, ULTTokens : SeqsUpTo(GlossTokens, MaxTokens)]
  /\ res = <<>>

\* searchULTWordRecords(words.join(' '), ULTTokens)
Search ==
  /\ pc = "call"
  /\ res' = searchULTWordRecords(join(inp.words, <<" ">>), inp.ULTTokens)
  /\ pc' = "returned"
  /\ UNCHANGED <<invocationVars, inp>>

SpecSearch == InitSearch /\ [][Search]_vars

\* The tokens of an original-language verse with the words given.
sourceTokensOf(words) == [i \in 1..Len(words) |-> wordToken(words[i], i - 1, <<>>)]

InitProject ==
  /\ NoInvocation
  /\ pc = "call"
  /\ inp \in [words : {<<W_the>>, <<W_poor>>, <<W_the, W_poor>>},
              ULTTokens : SeqsUpTo(GlossTokens, MaxTokens),
              sourceTokens : {sourceTokensOf(ws) : ws \in SeqsUpTo(OrigLWords, MaxOrigLWords)}]
  /\ res = <<>>

\* origLFromGLQuote(book, cv, sourceTokens, ULTTokens, words.join(' '), occurrence)
Project ==
  /\ pc = "call"
  /\ res' = origLFromGLQuote(book, <<"5", ":", "4">>, inp.sourceTokens, inp.ULTTokens,
                             join(inp.words, <<" ">>), <<"1">>)
  /\ pc' = "returned"
  /\ UNCHANGED <<invocationVars, inp>>

SpecProject == InitProject /\ [][Project]_vars

Next ==
  \/ Invoke
  \/ FetchResponse
  \/ FetchResponseWithoutContent
  \/ FetchFailure
  \/ Then
  \/ QueryResult
  \/ ResumeThen
  \/ QueryErrors
  \/ NextRecord
  \/ TryVerse
  \/ NoVerse
  \/ Resolve
  \/ Catch

Spec == Init /\ [][Next]_vars

(***************************************************************************)
(* Properties of the invocation (under Spec)                               *)
(***************************************************************************)
\* Record r as parsed from the table, before any rewriting of its quote.
inputRecord(r) == parseTsvToObjects(tsvContent)[r]

startsWithTag(quote) ==
  Len(quote) >= Len(FailureTag) /\ SubSeq(quote, 1, Len(FailureTag)) = FailureTag

\* The quote of record r without the failure tag it begins with, if any.
untaggedInput(r) ==
  IF startsWithTag(inputRecord(r).quote)
    THEN SubSeq(inputRecord(r).quote, Len(FailureTag) + 1, Len(inputRecord(r).quote))
    ELSE inputRecord(r).quote

\* The chapter and the candidate verses of record r, from its ref.
refChapter(r) == splitChars(inputRecord(r).ref, {":"})[1]

refVerses(r) == versesOf(splitChars(inputRecord(r).ref, {":"})[2])

\* What the resolution of record r finds in verse v: resultObject or a throw.
verseResult(r, v) ==
  resolveInVerse(tokenLookup, book, [inputRecord(r) EXCEPT !.quote = untaggedInput(r)],
                 refChapter(r), v)

outcomesCount(outcome) ==
  Cardinality({k \in 1..Len(attempts) : attempts[k].outcome = outcome})

\* The attempt that committed the j-th failure.
failedAttempt(j) ==
  attempts[CHOOSE k \in 1..Len(attempts) :
             /\ attempts[k].outcome = "fail"
             /\ Cardinality({m \in 1..k : attempts[m].outcome = "fail"}) = j]

lastAttempt == attempts[Len(attempts)]

\* C1: when the invocation resolves, output holds one entry per row of the
\* table, and entry i is row i with at most its quote rewritten.
C1_OneEntryPerRow ==
  promise.state = "resolved" =>
    /\ Len(promise.value.output) = Len(tsvContent)
    /\ \A i \in 1..Len(tsvContent) :
         /\ promise.value.output[i][1] = tsvContent[i][1]
         /\ promise.value.output[i][2] = tsvContent[i][2]
         /\ promise.value.output[i][4] = tsvContent[i][4]

\* C2: the candidate verses of a record are tried in their order, each once;
\* a verse is tried only after every verse before it has failed, and no
\* verse is tried after one that resolved; a failure before the last verse
\* changes neither errors nor the fail counter; a record is committed as
\* passed with the projection of the verse that resolved, and as failed only
\* at its last verse, with one error entry, that of the last verse.
C2_FirstSuccessWins ==
  /\ \A k \in 1..Len(attempts) :
       LET e == attempts[k]
       IN /\ e.verses = refVerses(e.record)
          /\ e.cv = cvOf(refChapter(e.record), e.verses[e.idx + 1])
          /\ IF e.idx = 0
               THEN k = 1 \/ attempts[k - 1].record < e.record
               ELSE /\ attempts[k - 1].record = e.record
                    /\ attempts[k - 1].idx = e.idx - 1
                    /\ attempts[k - 1].outcome = "continue"
          /\ e.outcome = "continue" => e.idx + 1 < Len(e.verses)
          /\ e.outcome = "fail" => e.idx + 1 = Len(e.verses)
  /\ counts.pass = outcomesCount("pass")
  /\ counts.fail = outcomesCount("fail")
  /\ Len(errors) = outcomesCount("fail")
  /\ \A j \in 1..Len(errors) :
       /\ errors[j].cv = failedAttempt(j).cv
       /\ errors[j].id = inputRecord(failedAttempt(j).record).id
  /\ Len(attempts) > 0 =>
       LET e == lastAttempt
           result == verseResult(e.record, e.verses[e.idx + 1])
       IN /\ e.outcome = "pass" <=> (~Threw(result) /\ HasData(result.return))
          /\ e.outcome = "pass" =>
               /\ tsvRecords[e.record].quote = getTidiedData(result.return.data)
               /\ nRecords = e.record =>
                    output[Len(output)] = tsvRecordToString(tsvRecords[e.record])
          /\ e.outcome = "fail" => errors[Len(errors)].error = result.return.error

\* A record passed in its second verse after its first verse failed.
C2_Witness ==
  /\ Len(attempts) >= 2
  /\ lastAttempt.outcome = "pass"
  /\ lastAttempt.idx = 1
  /\ attempts[Len(attempts) - 1].outcome = "continue"
  /\ errors = <<>>

\* The rows C3 is about: the quote is empty or missing, or holds a Hebrew or
\* Greek character, or the ref is the header label.
HebrewAndGreekCharacters == {"MAQAF", "PASEQ", "ALEF", "ALPHA", "EPSILONPSILI"}

isRowToPassThrough(row) ==
  \/ row[3] = UndefinedString
  \/ row[3] = <<>>
  \/ \E i \in 1..Len(row[3]) : row[3][i] \in HebrewAndGreekCharacters
  \/ row[1] = HeaderLabel

\* C3: the step that takes such a row pushes the row on output as it is
\* and changes nothing else: no verse is tried for it, the counters and
\* errors stay as they are, and the next record is taken next.
C3_PassThroughStep ==
  (pc = "records" /\ nRecords' = nRecords + 1 /\ isRowToPassThrough(tsvContent[nRecords + 1]))
    => /\ output' = Append(output, tsvContent[nRecords + 1])
       /\ tsvRecords' = tsvRecords
       /\ counts' = counts
       /\ errors' = errors
       /\ attempts' = attempts
       /\ pc' = "records"

C3_PassThrough == [][C3_PassThroughStep]_vars

\* A row with a Hebrew letter has been pushed on output.
C3_Witness ==
  /\ pc = "records"
  /\ nRecords >= 1
  /\ \E i \in 1..Len(tsvContent[nRecords][3]) : tsvContent[nRecords][3][i] = "ALEF"
  /\ Len(output) >= 1
  /\ output[Len(output)] = tsvContent[nRecords]

\* C4: for a record whose quote begins with the failure tag, the variants
\* tried are those of the quote without that tag; a record that fails gets
\* the tag followed by the untagged quote, and this output, given to the
\* resolver again, is tried with the same variants.
C4_TagStrippedBeforeVariants ==
  /\ \A k \in 1..Len(attempts) :
       attempts[k].quotesToTry = quotesToTryOf(untaggedInput(attempts[k].record))
  /\ (Len(attempts) > 0 /\ lastAttempt.outcome = "fail") =>
       LET committed == tsvRecords[lastAttempt.record]
       IN /\ committed.quote = FailureTag \o untaggedInput(lastAttempt.record)
          /\ ~isPassedThrough(committed)
          /\ quotesToTryOf(untaggedQuote(committed.quote)) = lastAttempt.quotesToTry

\* A record whose quote begins with the tag has failed again.
C4_Witness ==
  /\ Len(attempts) > 0
  /\ lastAttempt.outcome = "fail"
  /\ startsWithTag(inputRecord(lastAttempt.record).quote)
  /\ tsvRecords[lastAttempt.record].quote = inputRecord(lastAttempt.record).quote

\* The tokens of verse cv in the corpus abbr are missing or empty.
holdsNoTokens(abbr, cv) ==
  LET found == verseLookup(tokenLookup, abbr, toUpperCase(book), cv)
  IN ~Threw(found) /\ (found.return = UndefinedTokens \/ Len(found.return) = 0)

\* The call of origLFromGLQuote for the search string quote in verse cv.
projectionIn(cv, quote) ==
  origLFromGLQuote(book, cv,
    verseLookup(tokenLookup, origLAbbr(testamentOf(toLowerCase(book))), toUpperCase(book), cv).return,
    wordLikeULTTokensOf(verseLookup(tokenLookup, "ult", toUpperCase(book), cv).return),
    quote, <<"1">>)

\* C5: a record whose quote is 'A ELLIPSIS B', tried in a verse where A
\* alone projects to the words X and B alone to the words Y, is committed
\* as passed with the quote 'X & Y'.
C5_EllipsisPartsJoined ==
  Len(attempts) > 0 =>
    LET e == lastAttempt
        quote == inputRecord(e.record).quote
        parts == splitEllipsis(quote)
        X == projectionIn(e.cv, parts[1])
        Y == projectionIn(e.cv, parts[2])
    IN (/\ Len(parts) = 2
        /\ quote = parts[1] \o <<" ", "ELLIPSIS", " ">> \o parts[2]
        /\ hasBook(tokenLookup, "ult", toUpperCase(book))
        /\ hasBook(tokenLookup, origLAbbr(testamentOf(toLowerCase(book))), toUpperCase(book))
        /\ ~holdsNoTokens("ult", e.cv)
        /\ ~holdsNoTokens(origLAbbr(testamentOf(toLowerCase(book))), e.cv)
        /\ ~Threw(X) /\ HasData(X.return)
        /\ ~Threw(Y) /\ HasData(Y.return))
       => /\ e.outcome = "pass"
          /\ tsvRecords[e.record].quote =
               join(X.return.data, <<" ">>) \o <<" ", "&", " ">> \o join(Y.return.data, <<" ">>)

\* C7: a verse without tokens in the gloss or in the original-language
\* corpus makes the attempt fail, it never throws; the invocation resolves
\* and every record is taken.
C7_EmptyVerseFailsWithoutThrow ==
  \A k \in 1..Len(attempts) :
    (\/ holdsNoTokens("ult", attempts[k].cv)
     \/ holdsNoTokens(origLAbbr(testamentOf(toLowerCase(book))), attempts[k].cv))
    => /\ attempts[k].outcome \in {"continue", "fail"}
       /\ pc = "done" => (promise.state = "resolved" /\ nRecords = Len(tsvContent))

\* C8: for a book that is no Bible book the promise is rejected and never
\* resolved, no record is processed, and neither a request for a document
\* nor a query of the index is started.
C8_InvalidBookRejects ==
  testamentOf(toLowerCase(book)) = "undefined" =>
    /\ promise.state # "resolved"
    /\ pc # "start" => (promise.state = "rejected" /\ promise.value = invalidBookMsg(book))
    /\ tsvRecords = <<>> /\ nRecords = 0 /\ attempts = <<>>
    /\ output = <<>> /\ errors = <<>>
    /\ requests = <<>> /\ queries = 0
    /\ pc \in {"start", "catch", "done"}

\* The invocation for a book that is no Bible book has run to its end.
C8_Witness ==
  /\ testamentOf(toLowerCase(book)) = "undefined"
  /\ pc = "done"
  /\ promise.state = "rejected"
  /\ Len(tsvContent) > 0

(***************************************************************************)
(* Properties of searchULTWordRecords (under SpecSearch)                   *)
(***************************************************************************)
\* The start indexes (0-based) at which every word of the phrase equals the
\* payload of the token at the same offset, the whole phrase inside the verse.
fullMatchStarts(words, tokens) ==
  {s \in 0..(Len(tokens) - Len(words)) :
     \A k \in 1..Len(words) : tokens[s + k].payload = words[k]}

\* C9: searchULTWordRecords returns a non-empty list exactly when the phrase
\* matches the tokens contiguously at some start index inside the verse; the
\* list returned is then the words of the phrase, each with the scopes of the
\* token it matched from the smallest such start; a phrase that runs past
\* the end of the verse is not a match.
C9_SearchIsContiguousMatch ==
  pc = "returned" =>
    LET starts == fullMatchStarts(inp.words, inp.ULTTokens)
    IN /\ ~Threw(res)
       /\ (res.return # <<>>) <=> (starts # {})
       /\ starts # {} =>
            LET s == CHOOSE t \in starts : \A u \in starts : t <= u
            IN res.return = [k \in 1..Len(inp.words) |->
                               <<inp.words[k], FALSE, inp.ULTTokens[s + k].scopes>>]

(***************************************************************************)
(* Properties of origLFromGLQuote (under SpecProject)                      *)
(***************************************************************************)
\* The MatchTriples the gloss match produces for the call.
matchTriples == searchULTWordRecords(join(inp.words, <<" ">>), inp.ULTTokens).return

\* Some alignment reference of some triple holds '/' + word + ':'.
namedByTriples(word, triples) ==
  \E i \in 1..Len(triples) :
    /\ Len(triples[i]) = 3
    /\ \E j \in 1..Len(triples[i][3]) : includes(triples[i][3][j], <<"/">> \o word \o <<":">>)

\* The same, among the triples that carry one or two alignment references.
namedByOneOrTwoScopes(word, triples) ==
  \E i \in 1..Len(triples) :
    /\ Len(triples[i]) = 3
    /\ Len(triples[i][3]) \in {1, 2}
    /\ \E j \in 1..Len(triples[i][3]) : includes(triples[i][3][j], <<"/">> \o word \o <<":">>)

\* The number of triples that name the word, with one or two references.
triplesNaming(word, triples) ==
  Cardinality({i \in 1..Len(triples) : namedByOneOrTwoScopes(word, <<triples[i]>>)})

verseWords == [i \in 1..Len(inp.sourceTokens) |-> inp.sourceTokens[i].payload]

occurrencesOf(word, words) == Cardinality({i \in 1..Len(words) : words[i] = word})

\* C6 as claimed: every word of a {data} result is named by an alignment
\* reference of a triple, and the result is {error} exactly when no word of
\* the verse is named by an alignment reference of a triple.
C6_ErrorIffNoWordNamed ==
  pc = "returned" =>
    /\ ~Threw(res)
    /\ HasData(res.return) =>
         \A i \in 1..Len(res.return.data) : namedByTriples(res.return.data[i], matchTriples)
    /\ ("error" \in DOMAIN res.return) <=>
         ~ \E i \in 1..Len(verseWords) : namedByTriples(verseWords[i], matchTriples)

\* C6 amended: every word of a {data} result is named by an alignment
\* reference of a triple that carries one or two references, and the result
\* is {error} exactly when no word of the verse is named by such a triple.
C6_ErrorIffNoWordNamedByOneOrTwoScopes ==
  pc = "returned" =>
    /\ ~Threw(res)
    /\ HasData(res.return) =>
         \A i \in 1..Len(res.return.data) :
           /\ namedByTriples(res.return.data[i], matchTriples)
           /\ namedByOneOrTwoScopes(res.return.data[i], matchTriples)
    /\ ("error" \in DOMAIN res.return) <=>
         ~ \E i \in 1..Len(verseWords) : namedByOneOrTwoScopes(verseWords[i], matchTriples)

\* A projection returned data while a triple with three references names a
\* word of the verse.
C6_Witness ==
  /\ pc = "returned"
  /\ HasData(res.return)
  /\ \E i \in 1..Len(matchTriples) :
       /\ Len(matchTriples[i]) = 3
       /\ Len(matchTriples[i][3]) = 3
       /\ \E j \in 1..Len(verseWords) : namedByTriples(verseWords[j], <<matchTriples[i]>>)

\* C10 as claimed: no word occurs twice in the list a projection returns.
C10_NoWordTwiceInOutput ==
  (pc = "returned" /\ HasData(res.return)) =>
    \A i, j \in 1..Len(res.return.data) :
      i # j => res.return.data[i] # res.return.data[j]

\* C10 amended: each position of the verse is emitted at most once, also
\* when several triples name its word: a word occurs in the list returned
\* at most as often as it occurs in the verse.
C10_EachPositionAtMostOnce ==
  (pc = "returned" /\ HasData(res.return)) =>
    /\ Len(res.return.data) <= Len(verseWords)
    /\ \A i \in 1..Len(verseWords) :
         occurrencesOf(verseWords[i], res.return.data) <= occurrencesOf(verseWords[i], verseWords)

\* A projection returned a word that two triples name.
C10_Witness ==
  /\ pc = "returned"
  /\ HasData(res.return)
  /\ \E i \in 1..Len(res.return.data) : triplesNaming(res.return.data[i], matchTriples) >= 2
====
